---- MODULE Spec2Model ----
(***************************************************************************)
(* Model of core/contracts/helper.go: the storage-slot resolver            *)
(* (ComputeMappingHash, WalletStatus), the access decision                 *)
(* (IsTransactionAllowed) and the owner lookup (GetCurrentOwnerAddr),      *)
(* running against a state database of state objects and storage slots.    *)
(*                                                                         *)
(* Byte strings are sequences over 0..255.  A *big.Int is a sign and a     *)
(* big-endian magnitude without leading zeros (what big.Int.Bytes          *)
(* returns).  Keccak-256 is an ideal hash: the digest of b is denoted by   *)
(* the tagged preimage <<KeccakTag>> \o b, so two digests are equal        *)
(* exactly when their preimages are.                                       *)
(***************************************************************************)
EXTENDS Integers, Sequences, FiniteSets, TLC

VARIABLES
    statedb,        \* [objects: set of addresses, storage: address -> (slot -> word)]
    SystemWallets,  \* the package-level map SystemWallets, as the set of its true keys
    ret,            \* the last call of the package and its outcome
    hashCalls       \* the calls of ComputeMappingHash made so far (SpecHash)

vars == <<statedb, SystemWallets, ret, hashCalls>>

----------------------------------------------------------------------------
(* Bounds of the model *)

\* the largest small status value a storage slot of the model holds (the
\* slots also hold HighWord, a value far above every status)
MaxStatus == 2
\* the largest number of written slots in the access-control contract
MaxWritten == 2
\* the number of ComputeMappingHash calls a behaviour of SpecHash records
MaxCalls == 2

----------------------------------------------------------------------------
(* common.Address, common.Hash, big.Int *)

AddressLength == 20
HashLength == 32
KeccakTag == 256

\* a nil *common.Address (tx.To() of a contract creation)
Nil == <<>>

Zeros(n) == [i \in 1..n |-> 0]

\* common.BytesToHash: keep the last 32 bytes, left-pad with zeros
BytesToHash(b) ==
    LET c == IF Len(b) > HashLength
             THEN SubSeq(b, Len(b) - HashLength + 1, Len(b)) ELSE b
    IN  Zeros(HashLength - Len(c)) \o c

\* common.BytesToAddress: keep the last 20 bytes, left-pad with zeros
BytesToAddress(b) ==
    LET c == IF Len(b) > AddressLength
             THEN SubSeq(b, Len(b) - AddressLength + 1, Len(b)) ELSE b
    IN  Zeros(AddressLength - Len(c)) \o c

RECURSIVE StripZeros(_)
StripZeros(b) ==
    IF b = <<>> THEN <<>>
    ELSE IF Head(b) = 0 THEN StripZeros(Tail(b)) ELSE b

\* big.NewInt(n) for |n| < 256
NewInt(n) ==
    IF n = 0 THEN [neg |-> FALSE, abs |-> <<>>]
    ELSE IF n < 0 THEN [neg |-> TRUE, abs |-> <<0 - n>>]
    ELSE [neg |-> FALSE, abs |-> <<n>>]

Big0 == NewInt(0)
Big1 == NewInt(1)
Big2 == NewInt(2)

\* a nil *big.Int
NilBig == [neg |-> FALSE, abs |-> <<0 - 1>>]

\* big.Int.Bytes: the magnitude, the sign is dropped
BigBytes(x) == x.abs

\* common.Hash.Big: the 32 bytes as an unsigned integer
HashBig(h) == [neg |-> FALSE, abs |-> StripZeros(h)]

\* common.BigToHash and common.BigToAddress
BigToHash(x) == BytesToHash(BigBytes(x))
BigToAddress(x) == BytesToAddress(BigBytes(x))

\* crypto.Keccak256Hash as an ideal hash
Keccak256Hash(b) == <<KeccakTag>> \o b

----------------------------------------------------------------------------
(* Package variables *)

Mk20(hi, lo) == [i \in 1..AddressLength |->
                    IF i = 1 THEN hi ELSE IF i = AddressLength THEN lo ELSE 0]

OwnerContractAddr == Mk20(16, 1)
WacContractAddr   == Mk20(16, 2)
SidraTokenAddr    == Mk20(16, 3)
MainFaucetAddr    == Mk20(16, 4)
WaqfAddr          == Mk20(16, 5)

SystemWalletsInit ==
    {OwnerContractAddr, WacContractAddr, SidraTokenAddr, MainFaucetAddr, WaqfAddr}

\* the slot index of the status mapping in the access-control contract
MappingSlot == 3

----------------------------------------------------------------------------
(* state.StateDB, as far as the package uses it *)

ZeroHash == Zeros(HashLength)

\* statedb.GetOrNewStateObject: the object of addr, created empty when missing
GetOrNewStateObject(db, addr) ==
    IF addr \in db.objects THEN db
    ELSE [objects |-> db.objects \cup {addr},
          storage |-> [a \in db.objects \cup {addr} |->
                          IF a = addr THEN {} ELSE db.storage[a]]]

\* stateObject.GetState: the word at key, the zero hash when never written.
\* A contract's storage is a set of <<key, word>> pairs with distinct keys.
GetState(db, addr, key) ==
    LET hit == {e \in db.storage[addr] : e[1] = key}
    IN  IF hit = {} THEN ZeroHash ELSE (CHOOSE e \in hit : TRUE)[2]

----------------------------------------------------------------------------
(* helper.go *)

\* Faulty variant of Concatenated: the slot index is put before the address.
ConcatenatedSlotFirst(addr, slot) ==
    LET p  == BytesToHash(BigBytes(slot))
        hK == BytesToHash(addr)
    IN  p \o hK

\* the 64 bytes ComputeMappingHash hashes: the local "concatenated"
Concatenated(addr, slot) ==
    LET p  == BytesToHash(BigBytes(slot))
        hK == BytesToHash(addr)
    IN  hK \o p

ComputeMappingHash(addr, slot) == Keccak256Hash(Concatenated(addr, slot))

\* Faulty variant of IsSystemAddr: only the owner contract is recognised.
IsSystemAddrOwnerOnly(addr) ==
    IF addr = Nil THEN FALSE ELSE addr = OwnerContractAddr

IsSystemAddr(addr) ==
    IF addr = Nil THEN FALSE ELSE addr \in SystemWallets

\* Faulty variant of WalletStatus: the status is read from the mapping declared
\* at the next slot index.
WalletStatusNextSlot(addr, db) ==
    IF IsSystemAddr(addr)
    THEN [db |-> db, panic |-> FALSE, value |-> Big1]
    ELSE LET db1 == GetOrNewStateObject(db, WacContractAddr) IN
         IF addr = Nil
         THEN [db |-> db1, panic |-> TRUE, value |-> NilBig]
         ELSE [db |-> db1, panic |-> FALSE,
               value |-> HashBig(GetState(db1, WacContractAddr,
                                 ComputeMappingHash(addr, NewInt(MappingSlot + 1))))]

\* WalletStatus: the state database after the call, whether the call panicked
\* (addr.Bytes() on a nil addr, line 44, after the state object was fetched on
\* line 59), and the value returned
WalletStatus(addr, db) ==
    IF IsSystemAddr(addr)
    THEN [db |-> db, panic |-> FALSE, value |-> Big1]
    ELSE LET db1 == GetOrNewStateObject(db, WacContractAddr) IN
         IF addr = Nil
         THEN [db |-> db1, panic |-> TRUE, value |-> NilBig]
         ELSE [db |-> db1, panic |-> FALSE,
               value |-> HashBig(GetState(db1, WacContractAddr,
                                 ComputeMappingHash(addr, NewInt(MappingSlot))))]

\* Faulty variant of isWhiteList: every nonzero status counts as whitelisted.
isWhiteListNonZero(value) == IF value = NilBig THEN FALSE ELSE value # Big0

isWhiteList(value) == IF value = NilBig THEN FALSE ELSE value = Big1

isBlackList(value) == IF value = NilBig THEN TRUE ELSE value = Big0

\* Faulty variant of isGreyList: Cmp(Big2) == 1 instead of == 0, so that the
\* values above 2 count as greylisted and 2 does not.
isGreyListCmpOne(value) ==
    IF value = NilBig THEN FALSE ELSE value \notin {Big0, Big1, Big2}

isGreyList(value) == IF value = NilBig THEN FALSE ELSE value = Big2

ErrSenderBlack   == "transaction is not allowed because sender is blacklisted"
ErrReceiverBlack == "transaction is not allowed because receiver is blacklisted"
ErrSenderGrey    == "transaction is not allowed because sender is greylisted"
ErrReceiverGrey  == "transaction is not allowed because receiver is greylisted"
ErrGeneric       == "transaction is not allowed"
NoErr            == ""

\* Faulty variant of Decide: allow unless restricted, the blacklist branches
\* left out.
DecideAllowUnlessRestricted(senderStatus, receiverStatus, to) ==
    IF isWhiteList(senderStatus) /\ isWhiteList(receiverStatus)
    THEN [allowed |-> TRUE, err |-> NoErr]
    ELSE IF isGreyList(senderStatus) /\ IsSystemAddr(to)
    THEN [allowed |-> TRUE, err |-> NoErr]
    ELSE IF isGreyList(senderStatus)
    THEN [allowed |-> FALSE, err |-> ErrSenderGrey]
    ELSE IF isGreyList(receiverStatus)
    THEN [allowed |-> FALSE, err |-> ErrReceiverGrey]
    ELSE [allowed |-> TRUE, err |-> NoErr]

\* Faulty variant of Decide: the escape of a greylisted sender tests the
\* receiver's status instead of its membership of SystemWallets.
DecideGreyToWhitelisted(senderStatus, receiverStatus, to) ==
    IF isWhiteList(senderStatus) /\ isWhiteList(receiverStatus)
    THEN [allowed |-> TRUE, err |-> NoErr]
    ELSE IF isGreyList(senderStatus) /\ isWhiteList(receiverStatus)
    THEN [allowed |-> TRUE, err |-> NoErr]
    ELSE IF isBlackList(senderStatus)
    THEN [allowed |-> FALSE, err |-> ErrSenderBlack]
    ELSE IF isBlackList(receiverStatus)
    THEN [allowed |-> FALSE, err |-> ErrReceiverBlack]
    ELSE IF isGreyList(senderStatus)
    THEN [allowed |-> FALSE, err |-> ErrSenderGrey]
    ELSE IF isGreyList(receiverStatus)
    THEN [allowed |-> FALSE, err |-> ErrReceiverGrey]
    ELSE [allowed |-> FALSE, err |-> ErrGeneric]

\* Faulty variant of Decide: the greylist branches come before the blacklist
\* branches.
DecideGreyBeforeBlack(senderStatus, receiverStatus, to) ==
    IF isWhiteList(senderStatus) /\ isWhiteList(receiverStatus)
    THEN [allowed |-> TRUE, err |-> NoErr]
    ELSE IF isGreyList(senderStatus) /\ IsSystemAddr(to)
    THEN [allowed |-> TRUE, err |-> NoErr]
    ELSE IF isGreyList(senderStatus)
    THEN [allowed |-> FALSE, err |-> ErrSenderGrey]
    ELSE IF isGreyList(receiverStatus)
    THEN [allowed |-> FALSE, err |-> ErrReceiverGrey]
    ELSE IF isBlackList(senderStatus)
    THEN [allowed |-> FALSE, err |-> ErrSenderBlack]
    ELSE IF isBlackList(receiverStatus)
    THEN [allowed |-> FALSE, err |-> ErrReceiverBlack]
    ELSE [allowed |-> FALSE, err |-> ErrGeneric]

\* the if/else-if chain of IsTransactionAllowed, lines 109-130; to is tx.To()
Decide(senderStatus, receiverStatus, to) ==
    IF isWhiteList(senderStatus) /\ isWhiteList(receiverStatus)
    THEN [allowed |-> TRUE, err |-> NoErr]
    ELSE IF isGreyList(senderStatus) /\ IsSystemAddr(to)
    THEN [allowed |-> TRUE, err |-> NoErr]
    ELSE IF isBlackList(senderStatus)
    THEN [allowed |-> FALSE, err |-> ErrSenderBlack]
    ELSE IF isBlackList(receiverStatus)
    THEN [allowed |-> FALSE, err |-> ErrReceiverBlack]
    ELSE IF isGreyList(senderStatus)
    THEN [allowed |-> FALSE, err |-> ErrSenderGrey]
    ELSE IF isGreyList(receiverStatus)
    THEN [allowed |-> FALSE, err |-> ErrReceiverGrey]
    ELSE [allowed |-> FALSE, err |-> ErrGeneric]

\* IsTransactionAllowed(tx, addr, statedb) with to = tx.To()
IsTransactionAllowed(to, addr, db) ==
    IF IsSystemAddr(addr)
    THEN [db |-> db, panic |-> FALSE, allowed |-> TRUE, err |-> NoErr]
    ELSE LET s == WalletStatus(addr, db) IN
         IF s.panic
         THEN [db |-> s.db, panic |-> TRUE, allowed |-> FALSE, err |-> NoErr]
         ELSE LET r == WalletStatus(to, s.db) IN
              IF r.panic
              THEN [db |-> r.db, panic |-> TRUE, allowed |-> FALSE, err |-> NoErr]
              ELSE LET d == Decide(s.value, r.value, to) IN
                   [db |-> r.db, panic |-> FALSE,
                    allowed |-> d.allowed, err |-> d.err]

\* GetCurrentOwnerAddr: the state database after the call and the address
GetCurrentOwnerAddr(db) ==
    LET db1   == GetOrNewStateObject(db, OwnerContractAddr)
        slot  == BigToHash(NewInt(0))
        value == HashBig(GetState(db1, OwnerContractAddr, slot))
    IN  [db |-> db1, addr |-> BigToAddress(value)]

----------------------------------------------------------------------------
(* Inputs *)

UserA == Mk20(170, 10)
UserB == Mk20(187, 11)

\* the senders of the model: a system wallet and two ordinary accounts
Senders == {SidraTokenAddr, UserA, UserB}

\* tx.To(): an address, or nil for a contract creation
Receivers == Senders \cup {Nil}

\* a storage word holding the small value v
Word(v) == BytesToHash(BigBytes(NewInt(v)))

\* a storage word whose only set byte is the most significant one (2^248)
HighWord == <<1>> \o Zeros(HashLength - 1)

StatusWords == {Word(v) : v \in 1..MaxStatus} \cup {HighWord}

\* the slots of the status mapping, and one slot of the next declared mapping
StatusKeys ==
    {ComputeMappingHash(a, NewInt(MappingSlot)) : a \in Senders}
        \cup {ComputeMappingHash(UserA, NewInt(MappingSlot + 1))}

WacStorages ==
    UNION { { {<<k, f[k]>> : k \in D} : f \in [D -> StatusWords] } :
              D \in {S \in SUBSET StatusKeys : Cardinality(S) <= MaxWritten} }

\* the owner contract: no state object yet, or slot 0 holding the owner
OwnerStorages == { {}, {<<ZeroHash, BytesToHash(UserA)>>} }

StateDBs ==
    { [objects |-> O,
       storage |-> [a \in O |-> IF a = WacContractAddr THEN wac ELSE own]] :
         <<O, wac, own>> \in
           { t \in (SUBSET {WacContractAddr, OwnerContractAddr})
                      \X WacStorages \X OwnerStorages :
               /\ t[2] # {} => WacContractAddr \in t[1]
               /\ t[3] # {} <=> OwnerContractAddr \in t[1] } }

\* slot indexes given to ComputeMappingHash: 0, 3, 4, -3, 256 and 2^256 + 3
WideSlot == [neg |-> FALSE, abs |-> <<1>> \o Zeros(HashLength - 1) \o <<3>>]
HashSlots ==
    {NewInt(0), NewInt(MappingSlot), NewInt(MappingSlot + 1),
     NewInt(0 - MappingSlot), [neg |-> FALSE, abs |-> <<1, 0>>], WideSlot}

NoCall ==
    [op |-> "none", addr |-> Nil, to |-> Nil, panic |-> FALSE,
     allowed |-> FALSE, err |-> NoErr, value |-> NilBig, owner |-> Nil]

----------------------------------------------------------------------------
(* The calls of the package against a state database *)

Init ==
    /\ statedb \in StateDBs
    /\ SystemWallets = SystemWalletsInit
    /\ ret = NoCall
    /\ hashCalls = <<>>

CallWalletStatus(addr) ==
    LET r == WalletStatus(addr, statedb) IN
    /\ statedb' = r.db
    /\ ret' = [NoCall EXCEPT !.op = "WalletStatus", !.addr = addr,
                             !.panic = r.panic, !.value = r.value]
    /\ UNCHANGED <<SystemWallets, hashCalls>>

CallIsTransactionAllowed(to, addr) ==
    LET r == IsTransactionAllowed(to, addr, statedb) IN
    /\ statedb' = r.db
    /\ ret' = [NoCall EXCEPT !.op = "IsTransactionAllowed", !.addr = addr,
                             !.to = to, !.panic = r.panic,
                             !.allowed = r.allowed, !.err = r.err]
    /\ UNCHANGED <<SystemWallets, hashCalls>>

CallGetCurrentOwnerAddr ==
    LET r == GetCurrentOwnerAddr(statedb) IN
    /\ statedb' = r.db
    /\ ret' = [NoCall EXCEPT !.op = "GetCurrentOwnerAddr", !.owner = r.addr]
    /\ UNCHANGED <<SystemWallets, hashCalls>>

Next ==
    \/ \E addr \in Receivers : CallWalletStatus(addr)
    \/ \E to \in Receivers, addr \in Senders : CallIsTransactionAllowed(to, addr)
    \/ CallGetCurrentOwnerAddr

Spec == Init /\ [][Next]_vars

----------------------------------------------------------------------------
(* ComputeMappingHash as a pure function: a log of its calls *)

InitHash ==
    /\ statedb = [objects |-> {}, storage |-> <<>>]
    /\ SystemWallets = SystemWalletsInit
    /\ ret = NoCall
    /\ hashCalls = <<>>

CallComputeMappingHash(addr, slot) ==
    /\ Len(hashCalls) < MaxCalls
    /\ hashCalls' = Append(hashCalls,
                       [addr |-> addr, slot |-> slot,
                        concatenated |-> Concatenated(addr, slot),
                        hash |-> ComputeMappingHash(addr, slot)])
    /\ UNCHANGED <<statedb, SystemWallets, ret>>

NextHash == \E addr \in Senders, slot \in HashSlots : CallComputeMappingHash(addr, slot)

SpecHash == InitHash /\ [][NextHash]_vars

----------------------------------------------------------------------------
(* What the state database stores, read off the storage directly *)

\* the slot of a's entry in the mapping declared at index n, written out:
\* keccak256(12 zero bytes, the address, 31 zero bytes, n)
ExpectedKey(a, n) ==
    <<KeccakTag>> \o Zeros(HashLength - AddressLength) \o a
        \o Zeros(HashLength - 1) \o <<n>>

\* the words stored for a in the status mapping of the access-control contract
StoredWords(a) ==
    IF WacContractAddr \in statedb.objects
    THEN {e[2] : e \in {x \in statedb.storage[WacContractAddr] :
                            x[1] = ExpectedKey(a, MappingSlot)}}
    ELSE {}

\* the stored status of a is the small value v (0: never written)
StoredIs(a, v) ==
    IF v = 0 THEN StoredWords(a) = {}
    ELSE StoredWords(a) = {Zeros(HashLength - 1) \o <<v>>}

\* the stored status of a is the value of HighWord, far above 2
StoredHigh(a) == StoredWords(a) = {HighWord}

IsSystem(a) == a # Nil /\ a \in SystemWalletsInit

\* the last call was IsTransactionAllowed
ITA == ret.op = "IsTransactionAllowed"

Admitted == ~ret.panic /\ ret.allowed /\ ret.err = NoErr
Denied   == ~ret.panic /\ ~ret.allowed /\ ret.err # NoErr

----------------------------------------------------------------------------
(* C1 *)

\* C1: a transaction whose sender is a system wallet is allowed (true, nil),
\* whatever the receiver is and whatever statuses are stored.
C1_SystemSenderAllowed ==
    (ITA /\ IsSystem(ret.addr)) => Admitted

\* a system sender with stored status 2 creating a contract was admitted
C1_Witness ==
    /\ ITA /\ IsSystem(ret.addr) /\ StoredIs(ret.addr, 2)
    /\ ret.to = Nil /\ Admitted

(* C2 *)

\* C2: a whitelisted non-system sender with a nil receiver (contract creation)
\* gets an answer, and the answer is allowed.
C2_ContractCreationAllowed ==
    (ITA /\ ~IsSystem(ret.addr) /\ StoredIs(ret.addr, 1) /\ ret.to = Nil)
        => Admitted

(* C3 *)

\* the party is greylisted: not a system wallet, stored status 2
Greylisted(a) == ~IsSystem(a) /\ StoredIs(a, 2)

\* C3 as stated: a sender and a present receiver that are both not greylisted
\* are allowed.
C3_NotGreylistedAllowed ==
    (ITA /\ ret.to # Nil /\ ~Greylisted(ret.addr) /\ ~Greylisted(ret.to))
        => Admitted

\* the party counts as whitelisted: a system wallet, or stored status 1
Whitelisted(a) == IsSystem(a) \/ StoredIs(a, 1)

\* C3 amended: a sender and a present receiver that both count as whitelisted
\* are allowed, and a non-system sender and receiver that both have stored
\* status zero are denied, the sender being reported blacklisted.
C3_WhitelistedAllowedUnlistedDenied ==
    /\ (ITA /\ ret.to # Nil /\ Whitelisted(ret.addr) /\ Whitelisted(ret.to))
          => Admitted
    /\ (ITA /\ ret.to # Nil /\ ~IsSystem(ret.addr) /\ ~IsSystem(ret.to)
            /\ StoredIs(ret.addr, 0) /\ StoredIs(ret.to, 0))
          => (Denied /\ ret.err = ErrSenderBlack)

\* an unlisted sender paying an unlisted receiver was denied
C3_Witness ==
    /\ ITA /\ ret.addr = UserA /\ ret.to = UserB
    /\ StoredIs(UserA, 0) /\ StoredIs(UserB, 0) /\ Denied

(* C4 *)

\* C4: a greylisted non-system sender is denied towards every present
\* receiver that is not a system wallet, whatever the receiver's status.
C4_GreySenderDenied ==
    (ITA /\ Greylisted(ret.addr) /\ ret.to # Nil /\ ~IsSystem(ret.to))
        => Denied

\* a greylisted sender paying a whitelisted ordinary receiver was denied
C4_Witness ==
    /\ ITA /\ Greylisted(ret.addr) /\ ret.to # Nil /\ ~IsSystem(ret.to)
    /\ StoredIs(ret.to, 1) /\ Denied

(* C5 *)

\* C5: a greylisted non-system sender is allowed towards a system wallet,
\* whatever is stored for that wallet.
C5_GreySenderToSystemAllowed ==
    (ITA /\ Greylisted(ret.addr) /\ IsSystem(ret.to)) => Admitted

\* a greylisted sender paying a system wallet whose own slot holds 2
C5_Witness ==
    /\ ITA /\ Greylisted(ret.addr) /\ IsSystem(ret.to)
    /\ StoredIs(ret.to, 2) /\ Admitted

(* C6 *)

\* C6: no call of the package that returns changes the state database (its
\* state objects and storage) or SystemWallets.
C6_ReadOnly ==
    [][~ret'.panic => (statedb' = statedb /\ SystemWallets' = SystemWallets)]_vars

(* C7 *)

\* the value WalletStatus must return for the stored word w
ValueOf(w) ==
    IF w = HighWord THEN [neg |-> FALSE, abs |-> HighWord]
    ELSE IF w[HashLength] = 0 THEN [neg |-> FALSE, abs |-> <<>>]
    ELSE [neg |-> FALSE, abs |-> <<w[HashLength]>>]

\* WalletStatus(a) returned exactly what is stored for a, zero when nothing is
RoundTrip(a) ==
    /\ ~ret.panic
    /\ \A w \in StoredWords(a) : ret.value = ValueOf(w)
    /\ StoredWords(a) = {} => ret.value = [neg |-> FALSE, abs |-> <<>>]

\* C7 as stated: for every address, WalletStatus returns exactly the value
\* stored at its slot of the status mapping, and zero when none was written.
C7_RoundTripEveryAddress ==
    (ret.op = "WalletStatus" /\ ret.addr # Nil) => RoundTrip(ret.addr)

\* C7 amended: for every address that is not a system wallet, WalletStatus
\* returns exactly the value stored at its slot of the status mapping, and
\* zero when none was written; for a system wallet it returns 1 whatever is
\* stored.
C7_RoundTripNonSystem ==
    /\ (ret.op = "WalletStatus" /\ ret.addr # Nil /\ ~IsSystem(ret.addr))
          => RoundTrip(ret.addr)
    /\ (ret.op = "WalletStatus" /\ IsSystem(ret.addr))
          => (~ret.panic /\ ret.value = [neg |-> FALSE, abs |-> <<1>>])

\* WalletStatus of an ordinary account returned the 2 stored for it, while
\* its slot in the next mapping holds something else
C7_Witness ==
    /\ ret.op = "WalletStatus" /\ ret.addr = UserA /\ StoredIs(UserA, 2)
    /\ ret.value = [neg |-> FALSE, abs |-> <<2>>]
    /\ <<ExpectedKey(UserA, MappingSlot + 1), Zeros(HashLength - 1) \o <<1>>>>
          \in statedb.storage[WacContractAddr]

(* C8 *)

\* calls i and j of the log were given the same address and slot index
SameArgs(i, j) ==
    /\ hashCalls[i].addr = hashCalls[j].addr
    /\ hashCalls[i].slot = hashCalls[j].slot

\* the slot index of call i is non-negative and below 2^256
SlotFits(i) ==
    ~hashCalls[i].slot.neg /\ Len(hashCalls[i].slot.abs) <= HashLength

\* the hashed string of call i is 64 bytes: 12 zeros, the address, and, for a
\* slot index that fits, its magnitude right-aligned in 32 bytes
InputShape(i) ==
    LET c == hashCalls[i].concatenated
        m == hashCalls[i].slot.abs
    IN  /\ Len(c) = 2 * HashLength
        /\ \A k \in 1..(HashLength - AddressLength) : c[k] = 0
        /\ \A k \in 1..AddressLength :
              c[HashLength - AddressLength + k] = hashCalls[i].addr[k]
        /\ SlotFits(i) =>
              /\ \A k \in 1..(HashLength - Len(m)) : c[HashLength + k] = 0
              /\ \A k \in 1..Len(m) : c[2 * HashLength - Len(m) + k] = m[k]
        /\ hashCalls[i].hash = <<KeccakTag>> \o c

\* equal arguments give equal hashes, whatever was called in between
Deterministic ==
    \A i, j \in DOMAIN hashCalls :
        SameArgs(i, j) => hashCalls[i].hash = hashCalls[j].hash

\* C8 as stated: ComputeMappingHash hashes the padded address followed by the
\* padded slot index, equal arguments give equal hashes, and any two distinct
\* (addr, slot) pairs give distinct hashed strings.
C8_InjectiveOnAllPairs ==
    /\ Deterministic
    /\ \A i \in DOMAIN hashCalls : InputShape(i)
    /\ \A i, j \in DOMAIN hashCalls :
          ~SameArgs(i, j) =>
              hashCalls[i].concatenated # hashCalls[j].concatenated

\* C8 amended: ComputeMappingHash hashes the padded address followed by the
\* padded slot index, equal arguments give equal hashes, and any two distinct
\* (addr, slot) pairs whose slot indexes are non-negative and below 2^256 give
\* distinct hashed strings.
C8_InjectiveOnFittingSlots ==
    /\ Deterministic
    /\ \A i \in DOMAIN hashCalls : InputShape(i)
    /\ \A i, j \in DOMAIN hashCalls :
          (~SameArgs(i, j) /\ SlotFits(i) /\ SlotFits(j)) =>
              /\ hashCalls[i].concatenated # hashCalls[j].concatenated
              /\ hashCalls[i].hash # hashCalls[j].hash

\* the same address hashed under slot indexes 3 and 4
C8_Witness ==
    /\ Len(hashCalls) >= 2
    /\ hashCalls[1].addr = UserA /\ hashCalls[2].addr = UserA
    /\ hashCalls[1].slot = [neg |-> FALSE, abs |-> <<MappingSlot>>]
    /\ hashCalls[2].slot = [neg |-> FALSE, abs |-> <<MappingSlot + 1>>]
    /\ hashCalls[1].hash # hashCalls[2].hash

(* C9 *)

\* the status the decision sees for a party: 1 for a system wallet, else the
\* stored one, as a small value (-1 for the value of HighWord)
Seen(a) ==
    IF IsSystem(a) THEN 1
    ELSE IF StoredHigh(a) THEN 0 - 1
    ELSE CHOOSE v \in 0..(MaxStatus + 1) : StoredIs(a, v)

\* the reason of a denial, first match in the documented order
FirstReason(s, r) ==
    IF s = 0 THEN ErrSenderBlack
    ELSE IF r = 0 THEN ErrReceiverBlack
    ELSE IF s = 2 THEN ErrSenderGrey
    ELSE IF r = 2 THEN ErrReceiverGrey
    ELSE ErrGeneric

\* C9: every answer of IsTransactionAllowed is (true, nil) or (false, reason),
\* the reason being the first match among sender blacklisted, receiver
\* blacklisted, sender greylisted, receiver greylisted, generic; a reason
\* names a party and a classification only when that party has that status.
C9_ReasonFirstMatch ==
    (ITA /\ ~ret.panic) =>
        /\ Admitted \/ Denied
        /\ Denied => ret.err = FirstReason(Seen(ret.addr), Seen(ret.to))
        /\ ret.err = ErrSenderBlack => StoredIs(ret.addr, 0)
        /\ ret.err = ErrReceiverBlack => StoredIs(ret.to, 0)
        /\ ret.err = ErrSenderGrey => StoredIs(ret.addr, 2)
        /\ ret.err = ErrReceiverGrey => StoredIs(ret.to, 2)

\* a greylisted sender paying an unlisted receiver: the receiver's blacklist
\* reason wins over the sender's greylist reason
C9_Witness ==
    /\ ITA /\ Greylisted(ret.addr) /\ ret.to # Nil /\ ~IsSystem(ret.to)
    /\ StoredIs(ret.to, 0) /\ Denied /\ ret.err = ErrReceiverBlack

(* C10 *)

\* C10: for a non-system sender and a present receiver, the transaction is
\* allowed exactly when the sender's stored status is 1 and the receiver is a
\* system wallet or has stored status 1, or the sender's stored status is 2
\* and the receiver is a system wallet.
C10_DefaultDeny ==
    (ITA /\ ~IsSystem(ret.addr) /\ ret.to # Nil) =>
        /\ Admitted \/ Denied
        /\ Admitted <=>
              \/ StoredIs(ret.addr, 1) /\ (IsSystem(ret.to) \/ StoredIs(ret.to, 1))
              \/ StoredIs(ret.addr, 2) /\ IsSystem(ret.to)

\* a sender whose stored status is far above 2 paying a whitelisted receiver
\* was denied
C10_Witness ==
    /\ ITA /\ ~IsSystem(ret.addr) /\ StoredHigh(ret.addr)
    /\ ret.to # Nil /\ StoredIs(ret.to, 1) /\ Denied /\ ret.err = ErrGeneric

====
